---- MODULE Spec2Model ----
(***************************************************************************)
(* A model of the route plotter plug-in (src/plot.cpp): the command        *)
(* handler Plugin::OnCompileCommand with its route registry, the two       *)
(* parsers CoordsSource::Parse and RouteSource::Parse, and the renderer    *)
(* Screen::OnRefresh.                                                      *)
(*                                                                         *)
(* Text is a sequence of one-character strings; the terminating NUL of a   *)
(* C string is the character read at position Len+1.  A double is a record *)
(* [nan, v]: v counts arc seconds, and the host's projection draws an arc   *)
(* second as a pixel.                                                      *)
(***************************************************************************)
EXTENDS Integers, Sequences, FiniteSets, TLC

VARIABLES
  routes,        \* Plugin::routes: route name -> Route
  name_counter,  \* Plugin::name_counter
  ret,           \* what the last OnCompileCommand returned ("none" before any)
  message,       \* the last message handed to display_message ("" when none)
  crashed,       \* the process was aborted by undefined behaviour
  p_in,          \* the input of the parser under check
  p_out,         \* the outcome of the parser under check
  scr            \* the renderer: graphics contexts, transforms, the last frame

vars == <<routes, name_counter, ret, message, crashed, p_in, p_out, scr>>

-----------------------------------------------------------------------------
(* Characters and doubles                                                  *)

NUL == "NUL"

At(text, p) == IF p >= 1 /\ p <= Len(text) THEN text[p] ELSE NUL

Upper == <<"A","B","C","D","E","F","G","H","I","J","K","L","M",
           "N","O","P","Q","R","S","T","U","V","W","X","Y","Z">>
Lower == <<"a","b","c","d","e","f","g","h","i","j","k","l","m",
           "n","o","p","q","r","s","t","u","v","w","x","y","z">>
Digit == <<"0","1","2","3","4","5","6","7","8","9">>

Range(s) == {s[i] : i \in DOMAIN s}

IndexOf(s, c) == CHOOSE i \in DOMAIN s : s[i] = c

NaN == [nan |-> TRUE, v |-> 0]

Num(x) == [nan |-> FALSE, v |-> x]

isnan(d) == d.nan

\* operator== on doubles: a NaN equals nothing, itself included
DoubleEq(a, b) == ~a.nan /\ ~b.nan /\ a.v = b.v

Neg(d) == IF d.nan THEN d ELSE Num(0 - d.v)

-----------------------------------------------------------------------------
(* Route data model                                                        *)

\* std::optional<Hold>: the empty sequence, or a sequence holding one Hold
nullopt == <<>>

Hold(len, crs, lh) == <<[length |-> len, course |-> crs, left_turns |-> lh]>>

\* Node(double, double): highlight false, label empty, no hold
Node(lat, lon) ==
  [lat |-> lat, lon |-> lon, highlight |-> FALSE, label |-> <<>>, hold |-> nullopt]

\* lines 59-61 with && for ||
IsDiscontinuity_Both(node) == isnan(node.lat) /\ isnan(node.lon)

\* lines 59-61
IsDiscontinuity(node) == isnan(node.lat) \/ isnan(node.lon)

-----------------------------------------------------------------------------
(* Coordinate codec                                                        *)

decode(c) ==
  IF c \in Range(Upper) THEN IndexOf(Upper, c) - 1
  ELSE IF c \in Range(Lower) THEN 26 + IndexOf(Lower, c) - 1
  ELSE IF c \in Range(Digit) THEN 52 + IndexOf(Digit, c) - 1
  ELSE -1

\* The parsers' outcomes.  error is the message with the values formatted
\* into it; ub tells that the parse executed undefined behaviour on its way,
\* and the rest of the record is then only one of the possible outcomes.
Ok(route, name) ==
  [kind |-> "ok", route |-> route, name |-> name,
   error |-> [text |-> "", args |-> <<>>], ub |-> FALSE]

FailWith(text, args) ==
  [kind |-> "error", route |-> <<>>, name |-> <<>>,
   error |-> [text |-> text, args |-> args], ub |-> FALSE]

Fail(text) == FailWith(text, <<>>)

Undefined(r) == [r EXCEPT !.ub = TRUE]

\* the process is aborted: no outcome is returned
Crash ==
  [kind |-> "crash", route |-> <<>>, name |-> <<>>,
   error |-> [text |-> "", args |-> <<>>], ub |-> TRUE]

\* strpbrk(command, "()"): the first bracket at or after p, 0 when none
strpbrk(text, p) ==
  IF \E q \in p..Len(text) : text[q] \in {"(", ")"}
  THEN CHOOSE q \in p..Len(text) :
         /\ text[q] \in {"(", ")"}
         /\ \A r \in p..(q - 1) : text[r] \notin {"(", ")"}
  ELSE 0

\* The label loop of lines 496-506, entered with command at p - 1.  It
\* yields the position of the closing bracket, 0 for "missing closing
\* bracket", and -1 when the loop ends on the terminating NUL with brackets
\* open: `end` is then uninitialized or stale, and the scan goes on behind
\* the terminator.
RECURSIVE LabelEnd(_, _, _)
LabelEnd(text, p, count) ==
  IF At(text, p) = NUL THEN -1
  ELSE LET end == strpbrk(text, p) IN
       IF end = 0 THEN 0
       ELSE LET c2 == IF text[end] = "(" THEN count + 1 ELSE count - 1 IN
            IF c2 = 0 THEN end ELSE LabelEnd(text, end + 1, c2)

\* lines 508-509: the characters between the brackets, in a string one longer
LabelText(text, start, end) == SubSeq(text, start, end - 1) \o <<NUL>>

\* lines 516-521: the seven decoded characters of a word starting at p
Word(text, p) == [i \in 0..6 |-> decode(At(text, p + i))]

\* stops at the first character that does not decode: never reads past NUL
WordValid(text, p) == \A i \in 1..6 : decode(At(text, p + i)) >= 0

\* lines 523-530, in arc seconds
WordLat(w) ==
  LET a == w[1] * 3600 + w[2] * 60 + w[3] + 216000 * ((w[0] \div 4) % 2)
  IN  Num(IF (w[0] \div 2) % 2 = 1 THEN 0 - a ELSE a)

WordLon(w) ==
  LET a == w[4] * 3600 + w[5] * 60 + w[6] + 216000 * ((w[0] \div 16) % 4)
  IN  Num(IF (w[0] \div 8) % 2 = 1 THEN 0 - a ELSE a)

\* lines 551-555
ExtraHold(extra1, extra2) ==
  Hold(extra2 % 16,
       6 * extra1 + (IF extra2 \div 32 # 0 THEN 3 ELSE 0),
       (extra2 \div 16) % 2 = 1)

\* line 513-515: a '-' changes lat and highlight of the item, nothing else
DashItem(item) == [item EXCEPT !.lat = NaN, !.highlight = FALSE]

\* lines 563-564
PushItem(route, item) == Append(route, [item EXCEPT !.label = <<>>])

\* The scan loop of lines 491-565 with the next character to read at p.
RECURSIVE Scan(_, _, _, _, _)
Scan(text, p, route, item, name) ==
  LET c == At(text, p) IN
  IF c = NUL THEN Ok(route, name)
  ELSE IF c = "(" /\ Len(route) > 0 THEN
    LET end == LabelEnd(text, p + 1, 1) IN
    IF end = 0 THEN Fail("missing closing bracket")
    ELSE IF end = -1 THEN Undefined(Ok(route, name))
    ELSE Scan(text, end + 1,
              [route EXCEPT ![Len(route)].label = LabelText(text, p + 1, end)],
              item, name)
  ELSE IF c = "-" THEN
    LET it == DashItem(item) IN
    Scan(text, p + 1, PushItem(route, it), it, name)
  ELSE IF decode(c) >= 0 THEN
    IF ~WordValid(text, p) THEN Fail("invalid character")
    ELSE
      LET w  == Word(text, p)
          it == [item EXCEPT !.lat = WordLat(w), !.lon = WordLon(w),
                             !.highlight = FALSE, !.hold = nullopt]
      IN
      IF w[0] % 2 = 0 THEN Scan(text, p + 7, PushItem(route, it), it, name)
      ELSE
        LET extra1 == decode(At(text, p + 7)) IN
        IF extra1 < 0 THEN Fail("invalid character")
        ELSE IF extra1 >= 60 THEN
          LET ih == [it EXCEPT !.highlight = TRUE] IN
          Scan(text, p + 8, PushItem(route, ih), ih, name)
        ELSE
          LET extra2 == decode(At(text, p + 8)) IN
          IF extra2 < 0 THEN Fail("invalid character")
          ELSE
            LET ih == [it EXCEPT !.hold = ExtraHold(extra1, extra2)] IN
            Scan(text, p + 9, PushItem(route, ih), ih, name)
  ELSE Fail("invalid structural character")

\* std::strspn(command, " ") from position p
RECURSIVE SkipSpaces(_, _)
SkipSpaces(text, p) == IF At(text, p) = " " THEN SkipSpaces(text, p + 1) ELSE p

\* CoordsSource::Parse.  args: the tokens from args_it to args_end; command:
\* the raw text; name: the caller's default name; item0: the value of the
\* uninitialized `Node item`.
CoordsSource_Parse(args, command, name, item0) ==
  IF Len(args) = 0 \/ At(command, 1) = NUL THEN Fail("missing string")
  ELSE
    LET named == Len(args) > 1 /\ "(" \notin Range(args[1])
        nm    == IF named THEN args[1] ELSE name
        p0    == IF named THEN SkipSpaces(command, Len(args[1]) + 1) ELSE 1
        p1    == IF At(command, p0) = "@" THEN p0 + 1 ELSE p0
    IN  Scan(command, p1, <<>>, item0, nm)

-----------------------------------------------------------------------------
(* Route resolver: the tokens                                              *)

Min(a, b) == IF a < b THEN a ELSE b

IsDigit(c) == c \in Range(Digit)

\* std::string::find(c): the first position of c in s, 0 for npos
Find(s, c) ==
  IF c \in Range(s)
  THEN CHOOSE i \in DOMAIN s : s[i] = c /\ \A j \in 1..(i - 1) : s[j] # c
  ELSE 0

\* the number of digits of s from position p on
RECURSIVE DigitRun(_, _)
DigitRun(s, p) == IF IsDigit(At(s, p)) THEN 1 + DigitRun(s, p + 1) ELSE 0

\* the value of the n digits of s from position p on
RECURSIVE DigitsValue(_, _, _)
DigitsValue(s, p, n) ==
  IF n = 0 THEN 0
  ELSE 10 * DigitsValue(s, p, n - 1) + (IndexOf(Digit, s[p + n - 1]) - 1)

\* std::stoi: an optional sign, then digits; what follows them is ignored.
\* No digit throws std::invalid_argument.
stoi(s) ==
  LET q == IF At(s, 1) \in {"+", "-"} THEN 2 ELSE 1
      n == DigitRun(s, q)
  IN  IF n = 0 THEN [ok |-> FALSE, v |-> 0]
      ELSE [ok |-> TRUE,
            v  |-> IF At(s, 1) = "-" THEN 0 - DigitsValue(s, q, n)
                   ELSE DigitsValue(s, q, n)]

toupper(c) == IF c \in Range(Lower) THEN Upper[IndexOf(Lower, c)] ELSE c

\* std::string_view: data() is null for a default-constructed view
NullView == [null |-> TRUE, text |-> <<>>]

View(s) == [null |-> FALSE, text |-> s]

NoHoldSpec == [len |-> 0, crs |-> 0, lh |-> FALSE]

\* lines 605-641: one point token, the first (it == start) or the last
\* (end - it == 1) or neither
ParsePoint(tok, first, last) ==
  LET s == Find(tok, "/") IN
  IF s = 0
  THEN [err |-> "", name |-> tok, runway |-> NullView, hold |-> NoHoldSpec]
  ELSE
    LET name == SubSeq(tok, 1, s - 1) IN
    IF Len(tok) - s > 3 THEN
      LET crs == stoi(SubSeq(tok, s + 1, s + 3))
          dir == toupper(tok[s + 4])
          len == IF Len(tok) > s + 4
                 THEN stoi(SubSeq(tok, s + 5, Len(tok)))
                 ELSE [ok |-> TRUE, v |-> 4]
      IN
      IF ~crs.ok
      THEN [err |-> "invalid integer", name |-> name, runway |-> NullView,
            hold |-> NoHoldSpec]
      ELSE IF dir # "R" /\ dir # "L"
      THEN [err |-> "invalid hold direction", name |-> name,
            runway |-> NullView, hold |-> NoHoldSpec]
      ELSE IF ~len.ok
      THEN [err |-> "invalid integer", name |-> name, runway |-> NullView,
            hold |-> NoHoldSpec]
      ELSE [err |-> "", name |-> name, runway |-> NullView,
            hold |-> [len |-> len.v, crs |-> crs.v, lh |-> dir = "L"]]
    ELSE IF first \/ last
    THEN [err |-> "", name |-> name,
          runway |-> View(SubSeq(tok, s + 1, Len(tok))), hold |-> NoHoldSpec]
    ELSE [err |-> "runway in nonterminal location", name |-> name,
          runway |-> NullView, hold |-> NoHoldSpec]

Position(lat, lon) == [lat |-> lat, lon |-> lon]

\* Position::operator==
PositionEq(a, b) == DoubleEq(a.lat, b.lat) /\ DoubleEq(a.lon, b.lon)

\* lines 654-667: int_xxx with n digits, split from the right into two-digit
\* groups, each divided by 60 once more than the one to its left; in arc
\* seconds, exact for the up to seven digits the loops run twice for
Sexagesimal(value, n) ==
  LET k == IF n \div 2 > 1 THEN n \div 2 - 1 ELSE 0 IN
  IF k = 0 THEN value * 3600
  ELSE IF k = 1 THEN (value \div 100) * 3600 + (value % 100) * 60
  ELSE (value \div 10000) * 3600 + ((value \div 100) % 100) * 60 + (value % 100)

\* lines 643-675: the pre-resolved position of a point whose name is the
\* start of tok.  strtoul reads the digits at src and stops at the first
\* other character of the token, the terminating NUL included.
Literal(tok) ==
  IF IsDigit(At(tok, 1)) THEN
    LET nlat     == DigitRun(tok, 1)
        lat_sign == nlat + 1
        nlon     == DigitRun(tok, lat_sign + 1)
        lon_sign == lat_sign + 1 + nlon
    IN
    IF At(tok, lat_sign) \notin {"N", "S"} THEN Position(Num(0), Num(0))
    ELSE IF At(tok, lon_sign) \notin {"E", "W"} THEN Position(Num(0), Num(0))
    ELSE
      LET lat == Sexagesimal(DigitsValue(tok, 1, nlat), nlat)
          lon == Sexagesimal(DigitsValue(tok, lat_sign + 1, nlon), nlon)
      IN  Position(Num(IF tok[lat_sign] = "S" THEN 0 - lat ELSE lat),
                   Num(IF tok[lon_sign] = "W" THEN 0 - lon ELSE lon))
  ELSE Position(NaN, Num(0))

\* line 594 without its start++: the name stays among the tokens
RouteTokens_KeepName(args) == args

\* line 594: the tokens after the optional name
RouteTokens(args) == IF Len(args) % 2 = 0 THEN Tail(args) ELSE args

\* lines 602-685: the points, in order
Points(toks) ==
  [k \in 1..((Len(toks) + 1) \div 2) |->
     ParsePoint(toks[2 * k - 1], k = 1, 2 * k - 1 = Len(toks))]

\* lines 679-684: the connectors, in order; DCT is a null view
AtsRoutes(toks) ==
  [k \in 1..(Len(toks) \div 2) |->
     IF toks[2 * k] = <<"D", "C", "T">> THEN NullView ELSE View(toks[2 * k])]

\* The first error of the token loop, "" when there is none.  The loop
\* returns at the first point that fails, so the points after it are not
\* parsed.
TokenError(toks) ==
  LET pts == Points(toks)
      bad == {k \in DOMAIN pts : pts[k].err # ""}
  IN  IF bad = {} THEN ""
      ELSE pts[CHOOSE k \in bad : \A j \in bad : k <= j].err

\* line 677: point_positions; emplace keeps the first position of a name
PointPositions(toks) ==
  LET pts   == Points(toks)
      names == {pts[k].name : k \in DOMAIN pts}
      first(n) == CHOOSE k \in DOMAIN pts :
                    pts[k].name = n /\ \A j \in 1..(k - 1) : pts[j].name # n
  IN  [n \in names |-> Literal(toks[2 * first(n) - 1])]

\* line 682: ats_route_positions; every connector but DCT gets a sequence,
\* empty until the database fills it
AtsRoutePositions(toks) ==
  LET ats == AtsRoutes(toks) IN
  [n \in {ats[k].text : k \in {j \in DOMAIN ats : ~ats[j].null}} |-> <<>>]

-----------------------------------------------------------------------------
(* Route resolver: the navigation database                                 *)

\* An element of the sector file: its type, GetName, GetAirportName,
\* GetRunwayName(0..1) and the positions GetPosition(pos, 0..) succeeds for.
Element(type, name, airport, runways, pos) ==
  [type |-> type, name |-> name, airport |-> airport, runways |-> runways,
   pos |-> pos]

\* el.GetPosition(&pos, j) succeeds
HasPosition(el, j) == j + 1 <= Len(el.pos)

\* std::string_view::compare(0, 4, s, 4)
Take4(s) == SubSeq(s, 1, Min(4, Len(s)))

\* lines 708-717: a point element sets the position of the points of its name
FixStep(st, el) ==
  IF el.name \in DOMAIN st.pp /\ HasPosition(el, 0)
  THEN [st EXCEPT !.pp[el.name] = el.pos[1]]
  ELSE st

\* lines 698-706: the arrival aerodrome (i = 0, the last point), then the
\* departure aerodrome (i = 1, the first point)
AirportStep(st, el, front, back) ==
  LET hit(point) == point.runway.text = <<>> /\ point.name = el.name
                    /\ HasPosition(el, 0)
  IN  [st EXCEPT !.ades = IF hit(back) THEN el.pos[1] ELSE @,
                 !.adep = IF hit(front) THEN el.pos[1] ELSE @]

\* lines 724-728: the threshold of the runway the point names, the second
\* threshold last
Threshold(point, el, old) ==
  IF ~point.runway.null /\ Take4(point.name) = Take4(el.airport)
  THEN LET a == IF point.runway.text = el.runways[1] /\ HasPosition(el, 0)
                THEN el.pos[1] ELSE old
       IN  IF point.runway.text = el.runways[2] /\ HasPosition(el, 1)
           THEN el.pos[2] ELSE a
  ELSE old

\* lines 719-731
RunwayStep(st, el, front, back) ==
  [st EXCEPT !.ades = Threshold(back, el, @), !.adep = Threshold(front, el, @)]

\* lines 742-749: the procedure of a terminal point and its connector
Procedure(out, point, ats, el) ==
  IF /\ out = <<>>
     /\ point.name = el.airport
     /\ (point.runway.text = <<>> \/ point.runway.text = el.runways[1])
     /\ ats.text = el.name
  THEN el.pos
  ELSE out

\* lines 734-752
SidStarStep(st, el, front, back, ats) ==
  IF Len(ats) = 0 THEN st
  ELSE [st EXCEPT !.star = Procedure(@, back, ats[Len(ats)], el),
                  !.sid  = Procedure(@, front, ats[1], el)]

\* lines 758-762: the positions of an airway, none twice in a row
RECURSIVE AppendDistinct(_, _, _)
AppendDistinct(vec, pos, j) ==
  IF j > Len(pos) THEN vec
  ELSE AppendDistinct(
         IF vec = <<>> \/ ~PositionEq(pos[j], vec[Len(vec)])
         THEN Append(vec, pos[j]) ELSE vec,
         pos, j + 1)

\* lines 754-765
AirwayStep(st, el) ==
  IF el.name \in DOMAIN st.arp
  THEN [st EXCEPT !.arp[el.name] = AppendDistinct(@, el.pos, 1)]
  ELSE st

\* lines 697-766: the switch on the element's type; an airport falls
\* through to the point elements
ElementStep(st, el, front, back, ats) ==
  IF el.type = "AIRPORT" THEN FixStep(AirportStep(st, el, front, back), el)
  ELSE IF el.type \in {"VOR", "NDB", "FIX"} THEN FixStep(st, el)
  ELSE IF el.type = "RUNWAY" THEN RunwayStep(st, el, front, back)
  ELSE IF el.type = "SIDS_STARS" THEN SidStarStep(st, el, front, back, ats)
  ELSE IF el.type \in {"LOW_AIRWAY", "HIGH_AIRWAY"} THEN AirwayStep(st, el)
  ELSE st

\* lines 692-767: every element of the sector file, in its order
RECURSIVE SectorScan(_, _, _, _, _, _)
SectorScan(st, db, k, front, back, ats) ==
  IF k > Len(db) THEN st
  ELSE SectorScan(ElementStep(st, db[k], front, back, ats),
                  db, k + 1, front, back, ats)

-----------------------------------------------------------------------------
(* Route resolver: the walk                                                *)

\* std::find over an airway or procedure: the first position equal to pos,
\* Len + 1 (cend) when there is none
FindPosition(seq, pos) ==
  IF \E k \in DOMAIN seq : PositionEq(seq[k], pos)
  THEN CHOOSE k \in DOMAIN seq :
         /\ PositionEq(seq[k], pos)
         /\ \A j \in 1..(k - 1) : ~PositionEq(seq[j], pos)
  ELSE Len(seq) + 1

\* lines 831-836: the nodes spliced in between from and to.  With
\* from = to = cbegin the code decrements the begin iterator; a build
\* without iterator checks then splices nothing.
Splice(seq, from, to, anchored) ==
  IF from < to
  THEN LET f == IF anchored THEN from ELSE from + 1 IN
       [k \in 1..(to - f) |-> Node(seq[f + k - 1].lat, seq[f + k - 1].lon)]
  ELSE [k \in 1..(from - 1 - to) |->
          Node(seq[from - k].lat, seq[from - k].lon)]

\* line 835 decrements an iterator equal to cbegin
SpliceUndefined(from, to) == ~(from < to) /\ from = 1

\* lines 839-858: the node of a point
PointNode(point, seg_end) ==
  [lat       |-> seg_end.lat,
   lon       |-> seg_end.lon,
   highlight |-> FALSE,
   label     |-> IF ~IsDigit(At(point.name, 1)) THEN point.name ELSE <<>>,
   hold      |-> IF point.hold.len # 0
                 THEN Hold(point.hold.len, point.hold.crs, point.hold.lh)
                 ELSE nullopt]

\* lines 788-803: which sequence governs the connector before point i
Governing(st, i, n, ats) ==
  IF i = 2 /\ st.sid # <<>> THEN "sid"
  ELSE IF i = n /\ st.star # <<>> THEN "star"
  ELSE IF ats[i - 1].text \notin DOMAIN st.arp THEN "none"
  ELSE "airway"

\* lines 773-861 from point i on (the first point is 1)
RECURSIVE Walk(_, _, _, _, _, _, _, _)
Walk(st, pts, ats, i, route, seg_start, name, ub) ==
  LET n == Len(pts)
      mark(r) == IF ub THEN Undefined(r) ELSE r
  IN
  IF i > n THEN mark(Ok(route, name))
  ELSE
    LET anchor == IF i = 1 /\ st.sid # <<>> THEN "adep"
                  ELSE IF i = n /\ st.star # <<>> THEN "ades"
                  ELSE "point"
        found == st.pp[pts[i].name]
        seg_end == IF anchor = "adep" THEN st.adep
                   ELSE IF anchor = "ades" THEN st.ades
                   ELSE found
    IN
    IF anchor = "point" /\ isnan(found.lat)
    THEN mark(FailWith("could not find point", <<pts[i].name>>))
    ELSE IF i > 1 /\ ~ats[i - 1].null THEN
      LET kind == Governing(st, i, n, ats)
          seq  == IF kind = "sid" THEN st.sid
                  ELSE IF kind = "star" THEN st.star
                  ELSE IF kind = "airway" THEN st.arp[ats[i - 1].text]
                  ELSE <<>>
          from == IF kind = "sid" THEN 1 ELSE FindPosition(seq, seg_start)
          to   == IF kind = "star" THEN Len(seq) + 1
                  ELSE FindPosition(seq, seg_end)
      IN
      IF kind = "none"
      THEN mark(FailWith("could not find airway", <<ats[i - 1].text>>))
      ELSE IF kind # "sid" /\ from = Len(seq) + 1
      THEN mark(FailWith("discontinuity",
                         <<pts[i - 1].name, ats[i - 1].text>>))
      ELSE IF kind # "star" /\ to = Len(seq) + 1
      THEN mark(FailWith("discontinuity", <<ats[i - 1].text, pts[i].name>>))
      ELSE Walk(st, pts, ats, i + 1,
                Append(route \o Splice(seq, from, to, kind \in {"sid", "star"}),
                       PointNode(pts[i], seg_end)),
                seg_end, name, ub \/ SpliceUndefined(from, to))
    ELSE Walk(st, pts, ats, i + 1, Append(route, PointNode(pts[i], seg_end)),
              seg_end, name, ub)

\* RouteSource::Parse.  args: the tokens from start to end; name: the
\* caller's default name; db: the sector file; adep0, ades0: the values of
\* the uninitialized `Position adep, ades`.  No token at all makes line 594
\* read *end.
RouteSource_Parse(args, name, db, adep0, ades0) ==
  IF Len(args) = 0 THEN Crash
  ELSE
    LET toks == RouteTokens(args)
        nm   == IF Len(args) % 2 = 0 THEN args[1] ELSE name
        err  == TokenError(toks)
    IN
    IF err # "" THEN Fail(err)
    ELSE
      LET pts == Points(toks)
          ats == AtsRoutes(toks)
          st0 == [adep |-> adep0, ades |-> ades0, pp |-> PointPositions(toks),
                  sid |-> <<>>, star |-> <<>>, arp |-> AtsRoutePositions(toks)]
          st1 == SectorScan(st0, db, 1, pts[1], pts[Len(pts)], ats)
          st2 == [st1 EXCEPT !.star = IF @ # <<>> THEN Append(@, st1.ades)
                                      ELSE @]
      IN  Walk(st2, pts, ats, 1, <<>>, Position(NaN, NaN), nm, FALSE)

-----------------------------------------------------------------------------
(* Undefined behaviour and the outcomes a build can produce                *)

NoOutcome ==
  [kind |-> "none", route |-> <<>>, name |-> <<>>,
   error |-> [text |-> "", args |-> <<>>], ub |-> FALSE]

\* CoordsSource::Parse reads behind the terminating NUL: the bytes there may
\* end the scan (r), stop it with an error, or lie outside the process
CoordsOutcomes(r) ==
  IF r.ub
  THEN {r, Crash, Undefined(Fail("invalid structural character")),
        Undefined(Fail("invalid character"))}
  ELSE {r}

\* RouteSource::Parse decrements a begin iterator: a checked build aborts,
\* an unchecked one goes on (r)
RouteOutcomes(r) == IF r.ub THEN {r, Crash} ELSE {r}

\* the values an uninitialized double may hold
Indeterminate == {Num(0), NaN}

-----------------------------------------------------------------------------
(* Command text                                                            *)

\* std::istream_iterator<std::string>: the words of text from position p on
RECURSIVE Split(_, _, _)
Split(text, p, word) ==
  IF p > Len(text) THEN (IF word = <<>> THEN <<>> ELSE <<word>>)
  ELSE IF text[p] = " "
  THEN (IF word = <<>> THEN <<>> ELSE <<word>>) \o Split(text, p + 1, <<>>)
  ELSE Split(text, p + 1, Append(word, text[p]))

Tokens(text) == Split(text, 1, <<>>)

\* the words joined by single spaces
RECURSIVE Join(_)
Join(words) ==
  IF words = <<>> THEN <<>>
  ELSE IF Len(words) = 1 THEN words[1]
  ELSE words[1] \o <<" ">> \o Join(Tail(words))

\* std::to_string of a positive int
RECURSIVE to_string(_)
to_string(n) ==
  IF n < 10 THEN <<Digit[n + 1]>>
  ELSE Append(to_string(n \div 10), Digit[(n % 10) + 1])

-----------------------------------------------------------------------------
(* Inputs                                                                  *)

\* bounds of the inputs
MaxPieces == 4
MaxArgs == 3
MaxCounter == 3

\* the sequences of 1..n elements of S
SeqsUpTo(S, n) == UNION {[1..k -> S] : k \in 1..n}

RECURSIVE Flatten(_)
Flatten(ss) == IF ss = <<>> THEN <<>> ELSE ss[1] \o Flatten(Tail(ss))

\* a plain word, a word with the hold 090/R/4, a highlighted word
PlainWord == <<"A", "A", "A", "A", "A", "A", "A">>
HoldWord == <<"B", "A", "A", "A", "A", "A", "A", "P", "E">>
HighlightWord == <<"B", "A", "A", "A", "A", "A", "A", "8">>

\* what the texts of the coordinate codec are made of
Pieces ==
  {PlainWord, HoldWord, HighlightWord, <<"-">>, <<"(">>, <<")">>, <<"x">>,
   <<" ">>, <<"@">>}

\* the caller skips the spaces before the text (line 416)
CoordsTexts ==
  {t \in {Flatten(ps) : ps \in SeqsUpTo(Pieces, MaxPieces)} \cup {<<>>} :
     At(t, 1) # " "}

\* the uninitialized `Node item` of line 486: lat and lon indeterminate
UninitItems == {Node(d, d) : d \in Indeterminate}

DCT == <<"D", "C", "T">>
EGLL == <<"E", "G", "L", "L">>

\* the tokens of the route resolver: names, a hold, a malformed and a
\* well-formed literal, an airport, connectors
RouteWords ==
  {<<"A">>, <<"B">>, <<"D">>, <<"Z">>, <<"B", "/", "0", "9", "0", "R", "4">>,
   <<"1", "2", "X">>, <<"5", "N", "3", "E">>, EGLL,
   DCT, <<"L", "1">>, <<"L", "9">>, <<"S", "1">>, <<"T", "1">>}

RouteArgs == SeqsUpTo(RouteWords, MaxArgs)

P(k) == Position(Num(k), Num(k))

Fix(name, k) == Element("FIX", name, <<>>, <<>>, <<P(k)>>)

\* A sector file: the fixes A to D on the airway L1 (A twice in a row in its
\* first part, the high airway of the same name going on), the airport EGLL
\* with the departure S1 to B and the arrival T1 from D.
Sector1 ==
  <<Fix(<<"A">>, 1), Fix(<<"B">>, 2), Fix(<<"C">>, 3), Fix(<<"D">>, 4),
    Element("LOW_AIRWAY", <<"L", "1">>, <<>>, <<>>, <<P(1), P(1), P(2)>>),
    Element("HIGH_AIRWAY", <<"L", "1">>, <<>>, <<>>, <<P(2), P(3), P(4)>>),
    Element("AIRPORT", EGLL, <<>>, <<>>, <<P(9)>>),
    Element("SIDS_STARS", <<"S", "1">>, EGLL, <<<<"2", "7">>, <<>>>>,
            <<P(8), P(2)>>),
    Element("SIDS_STARS", <<"T", "1">>, EGLL, <<<<"2", "7">>, <<>>>>,
            <<P(4), P(7)>>)>>

\* the same airway the other way round, and no procedure
Sector2 ==
  <<Element("VOR", <<"A">>, <<>>, <<>>, <<P(1)>>),
    Element("NDB", <<"B">>, <<>>, <<>>, <<P(2)>>),
    Fix(<<"D">>, 4),
    Element("HIGH_AIRWAY", <<"L", "1">>, <<>>, <<>>,
            <<P(4), P(3), P(2), P(1)>>)>>

Sectors == {Sector1, Sector2, <<>>}

DefaultName == <<"1">>

-----------------------------------------------------------------------------
(* The parsers on their own                                                *)

NoMessage == [from |-> "", text |-> "", args |-> <<>>]

NoRoutes == [n \in {} |-> <<>>]

Screen0 ==
  [ctx |-> 0, transforms |-> 0, refreshes |-> 0, stale |-> FALSE,
   frame |-> <<>>]

Idle ==
  /\ routes = NoRoutes
  /\ name_counter = 0
  /\ ret = "none"
  /\ message = NoMessage
  /\ crashed = FALSE
  /\ scr = Screen0

InitCoords ==
  /\ Idle
  /\ p_in \in {[command |-> t, item0 |-> i] : t \in CoordsTexts,
                                               i \in UninitItems}
  /\ p_out = NoOutcome

\* CoordsSource::Parse on the text and its words
ParseCoords ==
  /\ p_out = NoOutcome
  /\ p_out' \in CoordsOutcomes(
       CoordsSource_Parse(Tokens(p_in.command), p_in.command, DefaultName,
                          p_in.item0))
  /\ UNCHANGED <<routes, name_counter, ret, message, crashed, p_in, scr>>

SpecCoords == InitCoords /\ [][ParseCoords]_vars

InitRoute ==
  /\ Idle
  /\ p_in \in {[args |-> a, db |-> d, uninit |-> Position(u, u)] :
                 a \in RouteArgs, d \in Sectors, u \in Indeterminate}
  /\ p_out = NoOutcome

\* RouteSource::Parse on the tokens
ParseRoute ==
  /\ p_out = NoOutcome
  /\ p_out' \in RouteOutcomes(
       RouteSource_Parse(p_in.args, DefaultName, p_in.db, p_in.uninit,
                         p_in.uninit))
  /\ UNCHANGED <<routes, name_counter, ret, message, crashed, p_in, scr>>

SpecRoute == InitRoute /\ [][ParseRoute]_vars

-----------------------------------------------------------------------------
(* Plugin::OnCompileCommand                                                *)

npos == 0

\* std::string_view::find_first_of(' ', p) and find_first_not_of(' ', p),
\* on positions counted from 1; npos stays npos
find_first_of(text, p) ==
  IF p # npos /\ \E q \in p..Len(text) : text[q] = " "
  THEN CHOOSE q \in p..Len(text) :
         text[q] = " " /\ \A r \in p..(q - 1) : text[r] # " "
  ELSE npos

find_first_not_of(text, p) ==
  IF p # npos /\ \E q \in p..Len(text) : text[q] # " "
  THEN CHOOSE q \in p..Len(text) :
         text[q] # " " /\ \A r \in p..(q - 1) : text[r] = " "
  ELSE npos

\* lines 414-416: where the text of the arguments starts
RECURSIVE RawOffset(_, _)
RawOffset(command, offset) ==
  IF offset = 0 THEN 1
  ELSE find_first_not_of(command,
                         find_first_of(command, RawOffset(command, offset - 1)))

PREFIX == <<".", "p", "l", "o", "t">>
HELP == <<"h", "e", "l", "p">>
CLEAR == <<"c", "l", "e", "a", "r">>
COORDS == <<"c", "o", "o", "r", "d", "s">>
ROUTE == <<"r", "o", "u", "t", "e">>

\* lines 402-408: the source the command names, and where its arguments
\* start among the words
SourceOf(parts) ==
  IF parts[2] = COORDS THEN [source |-> "coords", offset |-> 2]
  ELSE IF parts[2] = ROUTE THEN [source |-> "route", offset |-> 2]
  ELSE [source |-> "route", offset |-> 1]

\* lines 418-422: the parse of the source, on the words after the offset and
\* the text from ofs on
Parse(source, parts, offset, command, name, db, item0, uninit) ==
  LET args == SubSeq(parts, offset + 1, Len(parts))
      ofs  == RawOffset(command, offset)
  IN
  IF source = "coords"
  THEN CoordsOutcomes(
         CoordsSource_Parse(args,
                            IF ofs = npos THEN <<>>
                            ELSE SubSeq(command, ofs, Len(command)),
                            name, item0))
  ELSE RouteOutcomes(RouteSource_Parse(args, name, db, uninit, uninit))

\* routes.erase(name) for every name of names
Erase(rs, names) == [n \in DOMAIN rs \ names |-> rs[n]]

\* lines 423-428 without the test of route.size()
Store_Unchecked(rs, name, route) ==
  [n \in DOMAIN rs \cup {name} |-> IF n = name THEN route ELSE rs[n]]

\* lines 423-428: a route of at least one node is stored under its name
Store(rs, name, route) ==
  IF Len(route) > 0
  THEN [n \in DOMAIN rs \cup {name} |-> IF n = name THEN route ELSE rs[n]]
  ELSE rs

\* the last of the messages of `help`
HelpMessage ==
  [from |-> "",
   text |-> "See <https://github.com/19wintersp/route-plotter> for more information.",
   args |-> <<>>]

ErrorMessage(error) ==
  [from |-> "Error", text |-> error.text, args |-> error.args]

\* the host's sector file
Sector == Sector1

\* what the user types: help, clear, the coordinate codec (a route, a named
\* route with a discontinuity, nothing but '@', an open label, a character
\* not of the alphabet, no text), the route resolver (by name and by
\* default, named, failing, without a token), and a command of another
\* plug-in
Commands ==
  {Join(ws) : ws \in
     {<<PREFIX>>,
      <<PREFIX, HELP>>,
      <<PREFIX, CLEAR>>,
      <<PREFIX, CLEAR, <<"2">>, <<"9">>>>,
      <<PREFIX, COORDS, PlainWord>>,
      <<PREFIX, COORDS, <<"2">>, HoldWord \o <<"-">>>>,
      <<PREFIX, COORDS, <<"@">>>>,
      <<PREFIX, COORDS, PlainWord \o <<"(">>>>,
      <<PREFIX, COORDS, <<"!">>>>,
      <<PREFIX, COORDS>>,
      <<PREFIX, ROUTE, <<"A">>, DCT, <<"B">>>>,
      <<PREFIX, <<"2">>, <<"B", "/", "0", "9", "0", "R", "4">>>>,
      <<PREFIX, <<"A">>, <<"L", "9">>, <<"B">>>>,
      <<PREFIX, ROUTE>>,
      <<<<".", "x">>, CLEAR>>}}

\* Plugin::OnCompileCommand(command).  item0 and uninit are the values the
\* uninitialized locals of the parsers hold.
OnCompileCommand(command, item0, uninit) ==
  LET parts == Tokens(command) IN
  /\ ~crashed
  /\ p_in' = [command |-> command]
  /\ IF Len(parts) = 0 \/ parts[1] # PREFIX THEN
       /\ ret' = FALSE
       /\ p_out' = NoOutcome
       /\ UNCHANGED <<routes, name_counter, message, crashed, scr>>
     ELSE IF Len(parts) = 1 \/ parts[2] = HELP THEN
       /\ message' = HelpMessage
       /\ ret' = TRUE
       /\ p_out' = NoOutcome
       /\ UNCHANGED <<routes, name_counter, crashed, scr>>
     ELSE IF parts[2] = CLEAR THEN
       /\ routes' = IF Len(parts) > 2
                    THEN Erase(routes, {parts[k] : k \in 3..Len(parts)})
                    ELSE NoRoutes
       /\ scr' = [scr EXCEPT !.stale = TRUE]
       /\ ret' = TRUE
       /\ p_out' = NoOutcome
       /\ UNCHANGED <<name_counter, message, crashed>>
     ELSE
       /\ name_counter < MaxCounter
       /\ name_counter' = name_counter + 1
       /\ \E r \in Parse(SourceOf(parts).source, parts, SourceOf(parts).offset,
                         command, to_string(name_counter + 1), Sector, item0,
                         uninit) :
            /\ p_out' = r
            /\ IF r.kind = "crash" THEN
                 /\ crashed' = TRUE
                 /\ UNCHANGED <<routes, ret, message, scr>>
               ELSE IF r.kind = "ok" THEN
                 /\ routes' = Store(routes, r.name, r.route)
                 /\ scr' = [scr EXCEPT !.stale = @ \/ Len(r.route) > 0]
                 /\ ret' = TRUE
                 /\ UNCHANGED <<message, crashed>>
               ELSE
                 /\ message' = ErrorMessage(r.error)
                 /\ ret' = FALSE
                 /\ UNCHANGED <<routes, crashed, scr>>

Init ==
  /\ Idle
  /\ p_in = [command |-> <<>>]
  /\ p_out = NoOutcome

Next ==
  \E command \in Commands, item0 \in UninitItems, u \in Indeterminate :
    OnCompileCommand(command, item0, Position(u, u))

Spec == Init /\ [][Next]_vars

-----------------------------------------------------------------------------
(* Screen::OnRefresh                                                       *)

REFRESH_PHASE_BACK_BITMAP == 0
LABEL_INTERVAL_DIV == 4
FONT_SIZE == 12

\* the clip rectangle of GetRadarArea, its top left corner at the origin
ClipWidth == 20
ClipHeight == 16

\* Gdiplus::Rect::Contains
Contains(x, y) == x >= 0 /\ x < ClipWidth /\ y >= 0 /\ y < ClipHeight

\* ConvertCoordFromPositionToPixel: the host's projection, here a pixel per
\* arc second, east to the right and north on the line y = lat
Pixel(lat, lon) == [x |-> lon.v, y |-> lat.v]

Abs(a) == IF a < 0 THEN 0 - a ELSE a

\* std::hypot on pixel differences: the integer root, exact for the
\* segments along an axis that the routes of this model are made of
hypot(dx, dy) ==
  CHOOSE h \in 0..(Abs(dx) + Abs(dy)) :
    h * h <= dx * dx + dy * dy /\ (h + 1) * (h + 1) > dx * dx + dy * dy

\* (double) i / (double) n as the fraction it is; 0/0 is NaN
Frac(i, n) == [num |-> i, den |-> n]

\* The fractions i/n, n <= 6, for which 255.0 * (1.0 - |1.0 - t * 2.0|) in
\* double arithmetic falls just below the integer the exact value is.
RoundsDown == {<<4, 5>>, <<1, 6>>, <<5, 6>>}

\* line 181: int x = 255.0 * (1.0 - std::abs(1.0 - t * 2.0)); the conversion
\* of NaN to int is undefined: undef is what it yields, as a BYTE
ColourX(t, undef) ==
  IF t.den = 0 THEN undef
  ELSE ((255 * (t.den - Abs(t.den - 2 * t.num))) \div t.den)
       - (IF <<t.num, t.den>> \in RoundsDown THEN 1 ELSE 0)

\* lines 180-183: every comparison with NaN is false
colour(t, undef) ==
  LET x == ColourX(t, undef) IN
  [R |-> IF t.den # 0 /\ 2 * t.num < t.den THEN 255 ELSE x,
   G |-> 0,
   B |-> IF t.den # 0 /\ 2 * t.num > t.den THEN 255 ELSE x]

NoColour == [R |-> 0, G |-> 0, B |-> 0]
NoPoint == [x |-> 0, y |-> 0]

\* One call of the graphics context: DrawHold stands for the two arcs and
\* the two lines of lines 264-267, whose geometry is not modelled.
Call(call, route, i, a, b, c1, c2, text) ==
  [call |-> call, route |-> route, i |-> i, a |-> a, b |-> b, c1 |-> c1,
   c2 |-> c2, text |-> text]

\* lines 283-291: the path labels of a segment of `length` from a, with
\* `dist` of the interval used up before it; each as its target
PathLabels(name, i, a, b, dist, length, inter) ==
  LET targets == {m \in 1..((dist + length) \div inter + 1) :
                    m * inter < dist + length}
      at(m) == m * inter - dist
  IN  [m \in 1..Cardinality(targets) |->
         Call("label", name, i,
              [x |-> a.x + (at(m) * (b.x - a.x)) \div length,
               y |-> a.y + (at(m) * (b.y - a.y)) \div length],
              [x |-> b.x - a.x, y |-> a.y - b.y], NoColour, NoColour,
              name)]

\* lines 214-293 for node i (counted from 0) of a route; acc: the calls so
\* far, the labels, dist, and point2
NodeStep(acc, name, route, i, inter, undef) ==
  LET n == Len(route) - 1
      node == route[i + 1]
  IN
  IF IsDiscontinuity(node) THEN acc
  ELSE
    LET point1 == acc.point2
        point2 == Pixel(node.lat, node.lon)
        held == IF node.hold # nullopt
                THEN <<Call("DrawHold", name, i, point2, point2,
                            colour(Frac(i, n), undef), NoColour, <<>>)>>
                ELSE <<>>
        a1 == [acc EXCEPT !.calls = @ \o held, !.point2 = point2]
    IN
    IF i < 1 \/ IsDiscontinuity(route[i]) THEN a1
    ELSE
      LET line == Call("DrawLine", name, i, point1, point2,
                       colour(Frac(i - 1, n), undef),
                       colour(Frac(i, n), undef), <<>>)
          a2 == [a1 EXCEPT !.calls = Append(@, line)]
      IN
      IF ~Contains(point2.x, point2.y) THEN a2
      ELSE
        LET length == hypot(point2.x - point1.x, point2.y - point1.y) IN
        [a2 EXCEPT
           !.labels = @ \o PathLabels(name, i, point1, point2, acc.dist,
                                      length, inter),
           !.dist = (acc.dist + length) % inter]

RECURSIVE RouteLines(_, _, _, _, _, _)
RouteLines(acc, name, route, i, inter, undef) ==
  IF i > Len(route) - 1 THEN acc
  ELSE RouteLines(NodeStep(acc, name, route, i, inter, undef), name, route,
                  i + 1, inter, undef)

\* lines 212-294: the routes in the order the map iterates them
RECURSIVE AllLines(_, _, _, _, _, _)
AllLines(acc, rs, order, k, inter, undef) ==
  IF k > Len(order) THEN acc
  ELSE AllLines(RouteLines(acc, order[k], rs[order[k]], 0, inter, undef),
                rs, order, k + 1, inter, undef)

\* lines 298-307: a label is drawn under its own transform, reset after it
LabelCalls(label) ==
  <<[label EXCEPT !.call = "TranslateTransform"],
    [label EXCEPT !.call = "RotateTransform"],
    [label EXCEPT !.call = "TranslateTransform"],
    [label EXCEPT !.call = "DrawString"],
    [label EXCEPT !.call = "ResetTransform"]>>

RECURSIVE AllLabels(_, _)
AllLabels(labels, k) ==
  IF k > Len(labels) THEN <<>>
  ELSE LabelCalls(labels[k]) \o AllLabels(labels, k + 1)

\* MeasureString: the rectangle of a label at its origin, eight pixels a
\* character
LabelRect(point1, r, label) ==
  [x |-> point1.x + r + 4, y |-> point1.y - (FONT_SIZE \div 2),
   w |-> 8 * Len(label), h |-> FONT_SIZE]

\* Gdiplus::RectF::IntersectsWith
IntersectsWith(a, b) ==
  /\ a.x < b.x + b.w
  /\ a.y < b.y + b.h
  /\ a.x + a.w > b.x
  /\ a.y + a.h > b.y

\* lines 318-339 for node i of a route; acc: the calls and the rectangles
\* of the labels placed
MarkerStep(acc, name, route, i) ==
  LET node == route[i + 1] IN
  IF IsDiscontinuity(node) THEN acc
  ELSE
    LET point1 == Pixel(node.lat, node.lon)
        r == IF node.highlight THEN 4 ELSE 1
        rect == LabelRect(point1, r, node.label)
        a1 == [acc EXCEPT !.calls =
                 Append(@, Call("DrawEllipse", name, i,
                                [x |-> point1.x - r, y |-> point1.y - r],
                                [x |-> r * 2, y |-> r * 2],
                                NoColour, NoColour, <<>>))]
    IN
    IF Len(node.label) > 0
       /\ \A k \in DOMAIN acc.rects : ~IntersectsWith(acc.rects[k], rect)
    THEN [a1 EXCEPT !.calls =
            Append(@, Call("DrawFixLabel", name, i, point1, point1,
                           NoColour, NoColour, node.label)),
          !.rects = Append(@, rect)]
    ELSE a1

RECURSIVE RouteMarkers(_, _, _, _)
RouteMarkers(acc, name, route, i) ==
  IF i > Len(route) - 1 THEN acc
  ELSE RouteMarkers(MarkerStep(acc, name, route, i), name, route, i + 1)

RECURSIVE AllMarkers(_, _, _, _)
AllMarkers(acc, rs, order, k) ==
  IF k > Len(order) THEN acc
  ELSE AllMarkers(RouteMarkers(acc, order[k], rs[order[k]], 0), rs, order,
                  k + 1)

\* the calls of a refresh of the back bitmap, lines 190-341
Frame(rs, order, undef) ==
  LET inter == ClipHeight \div LABEL_INTERVAL_DIV
      lines == AllLines([calls |-> <<>>, labels |-> <<>>, dist |-> 0,
                         point2 |-> NoPoint],
                        rs, order, 1, inter, undef)
      marks == AllMarkers([calls |-> <<>>, rects |-> <<>>], rs, order, 1)
  IN  <<Call("FromHDC", <<>>, 0, NoPoint, NoPoint, NoColour, NoColour, <<>>),
        Call("SetClip", <<>>, 0, NoPoint, NoPoint, NoColour, NoColour, <<>>)>>
      \o lines.calls \o AllLabels(lines.labels, 1) \o marks.calls

\* the graphics contexts a sequence of calls leaves acquired: FromHDC
\* allocates one, and only deleting it releases it
RECURSIVE Acquired(_, _)
Acquired(calls, k) ==
  IF k > Len(calls) THEN 0
  ELSE Acquired(calls, k + 1)
       + (IF calls[k].call = "FromHDC" THEN 1
          ELSE IF calls[k].call = "delete" THEN -1 ELSE 0)

\* whether a sequence of calls leaves a transform applied
RECURSIVE Transformed(_, _)
Transformed(calls, k) ==
  IF k = 0 THEN FALSE
  ELSE IF calls[k].call = "ResetTransform" THEN FALSE
  ELSE IF calls[k].call \in {"TranslateTransform", "RotateTransform"}
  THEN TRUE
  ELSE Transformed(calls, k - 1)

\* the orders an unordered_map of at most two routes may iterate in
Orders(rs) ==
  {o \in [1..Cardinality(DOMAIN rs) -> DOMAIN rs] :
     \A a, b \in DOMAIN o : a # b => o[a] # o[b]}

\* the values (int) NaN may yield, as a BYTE
UndefBytes == {0, 255}

\* line 262: t is NaN for the one node of a route of one node, and only
\* then is the conversion of line 181 undefined
UndefFor(rs) ==
  IF \E n \in DOMAIN rs : Len(rs[n]) = 1 THEN UndefBytes ELSE {0}

MaxRefresh == 2

\* Screen::OnRefresh(hdc, phase)
OnRefresh(phase) ==
  /\ ~crashed
  /\ scr.refreshes < MaxRefresh
  /\ IF phase # REFRESH_PHASE_BACK_BITMAP
     THEN scr' = [scr EXCEPT !.refreshes = @ + 1, !.frame = <<>>]
     ELSE \E order \in Orders(routes), undef \in UndefFor(routes) :
            LET frame == Frame(routes, order, undef) IN
            scr' = [scr EXCEPT !.refreshes = @ + 1,
                               !.frame = frame,
                               !.ctx = @ + Acquired(frame, 1),
                               !.transforms =
                                 @ + (IF Transformed(frame, Len(frame))
                                      THEN 1 ELSE 0)]
  /\ UNCHANGED <<routes, name_counter, ret, message, crashed, p_in, p_out>>


MaxNodes == 5

\* The nodes the routes on the screen are made of: a labelled fix, a fix
\* with a hold, a discontinuity as the coordinate codec leaves it after a
\* word with a hold and before a label, a highlighted fix off the screen.
NodeA == [Node(Num(0), Num(3)) EXCEPT !.label = <<"A">>]
NodeB == [Node(Num(0), Num(9)) EXCEPT !.hold = Hold(4, 90, FALSE)]
NodeD == [Node(NaN, Num(9)) EXCEPT !.hold = Hold(4, 90, FALSE),
                                   !.label = <<"x", NUL>>]
NodeE == [Node(Num(0), Num(30)) EXCEPT !.highlight = TRUE]

ScreenNodes == {NodeA, NodeB, NodeD, NodeE}

\* the registries on the screen: one route, or that route and a second one
ScreenRoutes ==
  LET one == {[n \in {<<"1">>} |-> r] : r \in SeqsUpTo(ScreenNodes, MaxNodes)}
      two == {[n \in {<<"1">>, <<"2">>} |->
                 IF n = <<"1">> THEN r ELSE <<NodeA, NodeB>>] :
                r \in SeqsUpTo(ScreenNodes, 2)}
  IN  one \cup two \cup {NoRoutes}

InitRender ==
  /\ routes \in ScreenRoutes
  /\ name_counter = 0
  /\ ret = "none"
  /\ message = NoMessage
  /\ crashed = FALSE
  /\ scr = Screen0
  /\ p_in = [command |-> <<>>]
  /\ p_out = NoOutcome

NextRender == \E phase \in {REFRESH_PHASE_BACK_BITMAP, 1} : OnRefresh(phase)

SpecRender == InitRender /\ [][NextRender]_vars

-----------------------------------------------------------------------------
(* The claims                                                              *)

\* a node whose lat or lon is NaN
Broken(node) == node.lat.nan \/ node.lon.nan

\* a command that plots: .plot, then a word that is neither help nor clear
IsPlotCommand(command) ==
  LET words == Tokens(command) IN
  Len(words) >= 2 /\ words[1] = PREFIX /\ words[2] \notin {HELP, CLEAR}

\* C1: a plot command changes the registry only if its parse succeeds with
\* at least one node, and then sets exactly the entry under the route's
\* name; a failed or vacuous parse leaves the registry as it was; no stored
\* route has length 0.
C1_OnlyParsedRoutesStored ==
  /\ [](\A n \in DOMAIN routes : Len(routes[n]) > 0)
  /\ [][IsPlotCommand(p_in'.command) =>
          IF p_out'.kind = "ok" /\ Len(p_out'.route) > 0
          THEN /\ DOMAIN routes' = DOMAIN routes \cup {p_out'.name}
               /\ routes'[p_out'.name] = p_out'.route
               /\ \A n \in DOMAIN routes \ {p_out'.name} :
                    routes'[n] = routes[n]
          ELSE routes' = routes]_vars

\* a parse has failed and the routes stored before it are still there
C1_Witness == p_out.kind = "error" /\ DOMAIN routes # {}

\* C2: every discontinuity of a route CoordsSource::Parse returns has an
\* empty label and no hold.
C2_DiscontinuityBare ==
  (p_out.kind = "ok" /\ ~p_out.ub) =>
    \A k \in DOMAIN p_out.route :
      Broken(p_out.route[k]) =>
        p_out.route[k].label = <<>> /\ p_out.route[k].hold = <<>>

\* the brackets of text[a..b]: those opened less those closed
Depth(text, a, b) ==
  Cardinality({k \in a..b : text[k] = "("})
  - Cardinality({k \in a..b : text[k] = ")"})

\* a label opened after the first word that the text ends in
OpenLabel(text) ==
  /\ Len(text) >= 8
  /\ SubSeq(text, 1, 7) = PlainWord
  /\ text[8] = "("
  /\ \A k \in 8..Len(text) : Depth(text, 8, k) > 0

\* C3: a label whose bracket count has not returned to zero when the text
\* ends makes Parse fail with "missing closing bracket" and return no route.
C3_OpenLabelFails ==
  (p_out.kind # "none" /\ OpenLabel(p_in.command)) =>
    /\ p_out.kind = "error"
    /\ p_out.error.text = "missing closing bracket"
    /\ p_out.route = <<>>

TokenA == <<"A">>
TokenBHold == <<"B", "/", "0", "9", "0", "R", "4">>

\* the sector files that know the fixes A, B and D
Known == {Sector1, Sector2}

\* C4 as stated: the tokens A and B/090R4 give a route of two nodes, A
\* without a hold and B with the hold 4/90/right.
C4_TwoTokensTwoNodes ==
  (p_out.kind # "none" /\ p_in.args = <<TokenA, TokenBHold>>
   /\ p_in.db \in Known) =>
    /\ p_out.kind = "ok"
    /\ Len(p_out.route) = 2
    /\ p_out.route[1].label = <<"A">>
    /\ p_out.route[1].hold = <<>>
    /\ p_out.route[2].label = <<"B">>
    /\ p_out.route[2].hold =
         <<[length |-> 4, course |-> 90, left_turns |-> FALSE]>>

\* C4 amended: of the two tokens A and B/090R4 the first is the name of the
\* route, which has the one node B with the hold; the tokens A, DCT and
\* B/090R4 give the route of two nodes.
C4_NameThenPoint ==
  /\ (p_out.kind # "none" /\ p_in.args = <<TokenA, TokenBHold>>
      /\ p_in.db \in Known) =>
       /\ p_out.kind = "ok"
       /\ p_out.name = <<"A">>
       /\ Len(p_out.route) = 1
       /\ p_out.route[1].label = <<"B">>
       /\ p_out.route[1].hold =
            <<[length |-> 4, course |-> 90, left_turns |-> FALSE]>>
  /\ (p_out.kind # "none" /\ p_in.args = <<TokenA, DCT, TokenBHold>>
      /\ p_in.db \in Known) =>
       /\ p_out.kind = "ok"
       /\ p_out.name = DefaultName
       /\ Len(p_out.route) = 2
       /\ p_out.route[1].label = <<"A">>
       /\ p_out.route[1].hold = <<>>
       /\ p_out.route[2].label = <<"B">>
       /\ p_out.route[2].hold =
            <<[length |-> 4, course |-> 90, left_turns |-> FALSE]>>

C4_Witness ==
  /\ p_in.args = <<TokenA, DCT, TokenBHold>>
  /\ p_in.db = Sector1
  /\ p_out.kind = "ok"
  /\ Len(p_out.route) = 2

\* the positions the sector file gives the airway L1, none twice in a row
AirwayL1(db) ==
  IF db = Sector1 THEN <<P(1), P(2), P(3), P(4)>>
  ELSE <<P(4), P(3), P(2), P(1)>>

\* the place of a fix on the airway
PlaceOn(seq, tok) ==
  LET k == IF tok = <<"A">> THEN 1 ELSE IF tok = <<"B">> THEN 2 ELSE 4 IN
  CHOOSE i \in DOMAIN seq : seq[i] = P(k)

\* the elements strictly between the places i and j, from i towards j
Between(seq, i, j) ==
  IF i < j THEN [k \in 1..(j - i - 1) |-> seq[i + k]]
  ELSE IF i > j THEN [k \in 1..(i - j - 1) |-> seq[i - k]]
  ELSE <<>>

OnAirway == {<<"A">>, <<"B">>, <<"D">>}

\* C5: between two points found at the places i and j of an airway the
\* elements strictly between them are inserted, towards j, none for i = j
\* (the first place included), each without label, hold or highlight.
C5_AirwaySplice ==
  (/\ p_out.kind # "none"
   /\ Len(p_in.args) = 3
   /\ p_in.args[1] \in OnAirway
   /\ p_in.args[2] = <<"L", "1">>
   /\ p_in.args[3] \in OnAirway
   /\ p_in.db \in Known) =>
    LET seq == AirwayL1(p_in.db)
        i == PlaceOn(seq, p_in.args[1])
        j == PlaceOn(seq, p_in.args[3])
        mid == Between(seq, i, j)
    IN
    /\ p_out.kind = "ok"
    /\ Len(p_out.route) = Len(mid) + 2
    /\ p_out.route[1].label = p_in.args[1]
    /\ p_out.route[Len(mid) + 2].label = p_in.args[3]
    /\ \A k \in DOMAIN mid :
         p_out.route[k + 1] =
           [lat |-> mid[k].lat, lon |-> mid[k].lon, highlight |-> FALSE,
            label |-> <<>>, hold |-> <<>>]

Malformed == <<"1", "2", "X">>

\* C6: a point whose name starts with a digit and is no literal is not
\* found: Parse fails with "could not find point" and its name.
C6_MalformedNotFound ==
  (p_out.kind # "none" /\ Len(p_in.args) \in {1, 3}
   /\ p_in.args[1] = Malformed) =>
    /\ p_out.kind = "error"
    /\ p_out.error = [text |-> "could not find point", args |-> <<Malformed>>]
    /\ p_out.route = <<>>

\* the sector file has no element of that name
Unknown(db, name) == \A k \in DOMAIN db : db[k].name # name

\* C7: a connector that names no airway of the sector file and no procedure
\* fails with "could not find airway" and its name; DCT never does.
C7_AirwayNotFound ==
  /\ (/\ p_out.kind # "none"
      /\ Len(p_in.args) = 3
      /\ p_in.args[1] \in OnAirway
      /\ p_in.args[3] \in OnAirway
      /\ p_in.db \in Known
      /\ p_in.args[2] # DCT
      /\ Unknown(p_in.db, p_in.args[2])) =>
       /\ p_out.kind = "error"
       /\ p_out.error =
            [text |-> "could not find airway", args |-> <<p_in.args[2]>>]
  /\ (p_out.kind # "none" /\ Len(p_in.args) = 3 /\ p_in.args[2] = DCT) =>
       p_out.error.text # "could not find airway"

\* C8: no graphics context stays acquired and no transform stays applied
\* after a refresh.
C8_ContextsReleased == scr.ctx = 0 /\ scr.transforms = 0

\* the calls of the last refresh
Calls == scr.frame

RealNode(name, i) ==
  /\ name \in DOMAIN routes
  /\ i + 1 \in DOMAIN routes[name]
  /\ ~Broken(routes[name][i + 1])

PixelOf(node) == [x |-> node.lon.v, y |-> node.lat.v]

OnScreen(pt) ==
  pt.x >= 0 /\ pt.x < ClipWidth /\ pt.y >= 0 /\ pt.y < ClipHeight

\* a quarter of the height of the radar area
Interval == ClipHeight \div 4

\* the length of the line a call draws, in pixels
Along(c) == hypot(c.b.x - c.a.x, c.b.y - c.a.y)

\* the length of the lines drawn up to call k that end on the screen
RECURSIVE Travelled(_)
Travelled(k) ==
  IF k = 0 THEN 0
  ELSE Travelled(k - 1)
       + (IF Calls[k].call = "DrawLine" /\ OnScreen(Calls[k].b)
          THEN Along(Calls[k]) ELSE 0)

\* where the path labels of the line of call k belong: at every multiple of
\* the interval that the distance travelled passes on that line
LabelsDue(k) ==
  LET c == Calls[k]
      before == Travelled(k - 1)
      due == {m \in 1..(before + Along(c)) :
                before < m * Interval /\ m * Interval < before + Along(c)}
  IN  {[x |-> c.a.x
                + ((m * Interval - before) * (c.b.x - c.a.x)) \div Along(c),
        y |-> c.a.y
                + ((m * Interval - before) * (c.b.y - c.a.y)) \div Along(c)] :
         m \in due}

LabelsDrawn(name, i) ==
  {Calls[k].a : k \in {j \in DOMAIN Calls :
                         /\ Calls[j].call = "DrawString"
                         /\ Calls[j].route = name
                         /\ Calls[j].i = i}}

\* C9: a discontinuity gets no marker, no label, no hold and no line; a line
\* joins two real nodes next to each other, at their pixels; the path labels
\* stand at the multiples of the interval along all the lines drawn, a
\* discontinuity between them or not.
C9_DiscontinuitySkipped ==
  \A k \in DOMAIN Calls :
    LET c == Calls[k] IN
    /\ c.call \in {"DrawEllipse", "DrawFixLabel", "DrawHold"} =>
         RealNode(c.route, c.i)
    /\ c.call = "DrawLine" =>
         /\ c.i >= 1
         /\ RealNode(c.route, c.i - 1)
         /\ RealNode(c.route, c.i)
         /\ c.a = PixelOf(routes[c.route][c.i])
         /\ c.b = PixelOf(routes[c.route][c.i + 1])
         /\ LabelsDrawn(c.route, c.i) =
              (IF OnScreen(c.b) THEN LabelsDue(k) ELSE {})
    /\ c.call = "DrawString" =>
         \E j \in DOMAIN Calls :
           /\ Calls[j].call = "DrawLine"
           /\ Calls[j].route = c.route
           /\ Calls[j].i = c.i

\* a line after a discontinuity carries a label, the distance travelled
\* before the discontinuity being no multiple of the interval
C9_Witness ==
  \E k \in DOMAIN Calls :
    /\ Calls[k].call = "DrawLine"
    /\ \E d \in 1..Calls[k].i :
         /\ Broken(routes[Calls[k].route][d])
         /\ \E j \in 1..(k - 1) : Calls[j].call = "DrawLine"
                                  /\ Calls[j].route = Calls[k].route
                                  /\ Calls[j].i < d
    /\ Travelled(k - 1) % Interval # 0
    /\ LabelsDrawn(Calls[k].route, Calls[k].i) # {}

\* 255 * (1 - |1 - 2 i/n|), truncated
ExactX(i, n) == (255 * (n - Abs(n - 2 * i))) \div n

\* x as the doubles give it: the exact value truncated, or one less where
\* the exact value is an integer the product falls just short of
TruncatedX(x, i, n) ==
  IF 2 * i = n \/ i = 0 \/ i = n THEN x = ExactX(i, n)
  ELSE IF (255 * (n - Abs(n - 2 * i))) % n = 0
  THEN x \in {ExactX(i, n), ExactX(i, n) - 1}
  ELSE x = ExactX(i, n)

\* the colours of the calls of the last refresh, each with the index of its
\* node and the last index of its route
Coloured ==
  {<<Calls[k].c1, Calls[k].i, Len(routes[Calls[k].route]) - 1>> :
     k \in {j \in DOMAIN Calls : Calls[j].call = "DrawHold"}}
  \cup
  {<<Calls[k].c1, Calls[k].i - 1, Len(routes[Calls[k].route]) - 1>> :
     k \in {j \in DOMAIN Calls : Calls[j].call = "DrawLine"}}
  \cup
  {<<Calls[k].c2, Calls[k].i, Len(routes[Calls[k].route]) - 1>> :
     k \in {j \in DOMAIN Calls : Calls[j].call = "DrawLine"}}

\* C10: a node i of a route of n + 1 >= 2 nodes is drawn with G = 0, R = 255
\* if i/n >= 0.5 and x otherwise, B = 255 if i/n <= 0.5 and x otherwise, so
\* the first node with R = 0 and B = 255 and the last with R = 255 and
\* B = 0; and what a refresh draws is defined: it does not depend on what the
\* conversion of 0/0 to an integer yields.
C10_RampAsStated ==
  /\ \A e \in Coloured :
       LET c == e[1]
           i == e[2]
           n == e[3]
       IN  n >= 1 =>
             /\ c.G = 0
             /\ IF 2 * i >= n THEN c.R = 255 ELSE TruncatedX(c.R, i, n)
             /\ IF 2 * i <= n THEN c.B = 255 ELSE TruncatedX(c.B, i, n)
             /\ i = 0 => c.R = 0 /\ c.B = 255
             /\ i = n => c.R = 255 /\ c.B = 0
  /\ Calls # <<>> =>
       \A undef \in UndefBytes :
         \E order \in Orders(routes) : Calls = Frame(routes, order, undef)

\* the departure S1 and the arrival T1 of EGLL as the sector file gives
\* them, the arrival with the position of the aerodrome at its end
DepartureS1 == <<P(8), P(2)>>
ArrivalT1 == <<P(4), P(7), P(9)>>

\* the position of a fix of the sector file
FixPosition(tok) ==
  IF tok = <<"A">> THEN P(1) ELSE IF tok = <<"B">> THEN P(2) ELSE P(4)

\* the route is the node of the first token, then bare nodes at the
\* positions mid, then the node of the last token
Spliced(mid) ==
  /\ p_out.kind = "ok"
  /\ Len(p_out.route) = Len(mid) + 2
  /\ p_out.route[1].label = p_in.args[1]
  /\ p_out.route[Len(mid) + 2].label = p_in.args[3]
  /\ \A k \in DOMAIN mid :
       p_out.route[k + 1] =
         [lat |-> mid[k].lat, lon |-> mid[k].lon, highlight |-> FALSE,
          label |-> <<>>, hold |-> <<>>]

\* C11: a departure procedure splices in its elements from the first up to,
\* not including, the position matched for the end of the segment; an arrival
\* procedure, the aerodrome appended, splices in the elements strictly after
\* the position matched for the start of the segment through its last; the
\* order is kept and the matched position is not spliced in.
C11_AnchoredSplice ==
  /\ (/\ p_out.kind # "none"
      /\ p_in.db = Sector1
      /\ Len(p_in.args) = 3
      /\ p_in.args[1] = EGLL
      /\ p_in.args[2] = <<"S", "1">>
      /\ p_in.args[3] \in OnAirway
      /\ \E j \in DOMAIN DepartureS1 :
           DepartureS1[j] = FixPosition(p_in.args[3])) =>
       LET j == CHOOSE j \in DOMAIN DepartureS1 :
                  DepartureS1[j] = FixPosition(p_in.args[3])
       IN  Spliced(SubSeq(DepartureS1, 1, j - 1))
  /\ (/\ p_out.kind # "none"
      /\ p_in.db = Sector1
      /\ Len(p_in.args) = 3
      /\ p_in.args[1] \in OnAirway
      /\ p_in.args[2] = <<"T", "1">>
      /\ p_in.args[3] = EGLL
      /\ \E i \in DOMAIN ArrivalT1 :
           ArrivalT1[i] = FixPosition(p_in.args[1])) =>
       LET i == CHOOSE i \in DOMAIN ArrivalT1 :
                  ArrivalT1[i] = FixPosition(p_in.args[1])
       IN  Spliced(SubSeq(ArrivalT1, i + 1, Len(ArrivalT1)))

\* a plot command that supplies no name: the coordinate codec takes a name
\* from the first of two or more words if it has no bracket, the route
\* resolver from the first of an even number of tokens
Unnamed(command) ==
  LET words == Tokens(command) IN
  /\ IsPlotCommand(command)
  /\ IF words[2] = COORDS
     THEN Len(words) <= 3 \/ "(" \in Range(words[3])
     ELSE IF words[2] = ROUTE THEN (Len(words) - 2) % 2 = 1
     ELSE (Len(words) - 1) % 2 = 1

\* C12: a plot command that supplies no name neither overwrites nor removes
\* a route of the registry: the key of the counter it stores under is none
\* of the keys present, the ones the user chose included.
C12_FreshKey ==
  [][Unnamed(p_in'.command) =>
       \A n \in DOMAIN routes :
         n \in DOMAIN routes' /\ routes'[n] = routes[n]]_vars

====
